---- MODULE Spec2Model ----
(***************************************************************************)
(* Model of the content-aggregation engine of api/scrap:                   *)
(*   scraping.py  get_updates, fetch_by_selector, SCRAPER_REGISTRY         *)
(*   utils.py     fetch_with_retry                                         *)
(*   software.py  the fetch_*_version strategies                           *)
(*   news.py      fetch_news and its four wrappers                         *)
(* One run of get_updates is one behaviour: the config is read, the        *)
(* scheduling loop builds the tasks dict, asyncio.gather drives the        *)
(* coroutines (interleaved at their await points), and the result is       *)
(* assembled once all of them have settled.                                *)
(***************************************************************************)
EXTENDS Integers, Sequences, FiniteSets, TLC

\* Longest config (number of source entries) explored.
MaxSources == 2

\* utils.py: attempt budget of fetch_with_retry.
RETRY_ATTEMPTS == 3

\* scraping.py: cap on the elements fetch_by_selector reads.
MAX_HEADLINES == 5

\* Python None (a JSON null).
None == "<None>"

\* Stands for "the dict has no such key".
Absent == "<absent>"

\* Python truthiness of a str-or-None value (`if not name`, `elif selector`).
Truthy(v) == v # None /\ v # ""

\* dict.get(key, default) on a config entry: the default for a key the entry
\* does not have, the value (None for a JSON null) for a key it has.
Get(source, key, default) ==
    IF source[key] = Absent THEN default ELSE source[key]

(***************************************************************************)
(* Python dicts keep insertion order: a dict is its key sequence and its   *)
(* key -> value map.  Assigning to a key already present keeps the key's   *)
(* position and replaces the value.                                        *)
(***************************************************************************)
EmptyDict == [keys |-> <<>>, val |-> <<>>]

Has(d, k) == k \in DOMAIN d.val

DictSet(d, k, v) ==
    IF Has(d, k)
    THEN [keys |-> d.keys, val |-> [d.val EXCEPT ![k] = v]]
    ELSE [keys |-> Append(d.keys, k), val |-> (k :> v) @@ d.val]

\* len(d)
DictLen(d) == Len(d.keys)

(***************************************************************************)
(* Strategies.                                                             *)
(***************************************************************************)
SoftwareFuncs == {"fetch_debian_stable_version", "fetch_python_version",
                  "fetch_vim_version", "fetch_aShell_stable_version",
                  "fetch_cmus_stable_version", "fetch_gpg_stable_version",
                  "fetch_pico_openpgp_stable_version"}

NewsFuncs == {"bbc", "dw", "cnn", "irishtimes"}

SCRAPER_REGISTRY ==
    [n \in {"Debian", "Python", "Vim", "aShell", "cmus", "GnuPG",
            "BBC", "DW", "CNN", "Irish Times"} |->
        CASE n = "Debian"      -> "fetch_debian_stable_version"
          [] n = "Python"      -> "fetch_python_version"
          [] n = "Vim"         -> "fetch_vim_version"
          [] n = "aShell"      -> "fetch_aShell_stable_version"
          [] n = "cmus"        -> "fetch_cmus_stable_version"
          [] n = "GnuPG"       -> "fetch_gpg_stable_version"
          [] n = "BBC"         -> "bbc"
          [] n = "DW"          -> "dw"
          [] n = "CNN"         -> "cnn"
          [] n = "Irish Times" -> "irishtimes"]

\* SCRAPER_REGISTRY.get(name)
RegistryGet(name) ==
    IF name \in DOMAIN SCRAPER_REGISTRY THEN SCRAPER_REGISTRY[name] ELSE None

(***************************************************************************)
(* Config entries (the "sources" list of config.json).  A field that is    *)
(* absent from an entry is Absent, a field that is null is None (the       *)
(* category of one selector entry).  The entries explored cover every path *)
(* of                                                                      *)
(* the scheduling loop: registered custom names (a news and a software     *)
(* strategy), an unregistered custom name that has a selector, selector    *)
(* entries with and without mode and category, an entry with neither       *)
(* selector nor custom mode, entries that share a name but differ in       *)
(* strategy and category, and entries whose name or url is missing or      *)
(* empty and that would be schedulable otherwise.                          *)
(***************************************************************************)
SiteUrl == "https://example.org/"

Entry(name, url, selector, mode, category) ==
    [name |-> name, url |-> url, css_selector |-> selector, mode |-> mode,
     category |-> category]

WellFormedEntries ==
    { Entry("BBC",  SiteUrl, Absent, "custom",   "news"),
      Entry("BBC",  SiteUrl, "h2 a", Absent,     Absent),
      Entry("Vim",  SiteUrl, Absent, "custom",   "software"),
      Entry("Vim",  SiteUrl, Absent, Absent,     "news"),
      Entry("Blog", SiteUrl, "h2 a", Absent,     Absent),
      Entry("Blog", SiteUrl, "h2 a", "custom",   "news"),
      Entry("Blog", SiteUrl, "h2 a", "selector", None) }

MalformedEntries ==
    { Entry(Absent, SiteUrl, "h2 a", Absent,   "news"),
      Entry("",    SiteUrl, "h2 a", Absent,   "news"),
      Entry("BBC", Absent,  Absent, "custom", "news"),
      Entry("BBC", "",      Absent, "custom", "news") }

SourceEntries == WellFormedEntries \cup MalformedEntries

ConfigNames == {e.name : e \in WellFormedEntries}

Configs == UNION {[1..n -> SourceEntries] : n \in 0..MaxSources}

\* config.json as load_config finds it: a JSON file with a "sources" list
\* (<<>> also for a file without that key), or a file that open/json.load
\* fail on (missing, unreadable, not JSON).
ConfigFile(loadable, entries) == [loadable |-> loadable, sources |-> entries]

ConfigFiles ==
    {ConfigFile(TRUE, entries) : entries \in Configs}
        \cup {ConfigFile(FALSE, <<>>)}

(***************************************************************************)
(* What the network and the remote page can do.                            *)
(***************************************************************************)
\* One HTTP GET: a 2xx body, a timeout/connection error, or a non-2xx
\* status (raise_for_status).
HttpFailures == {"timeout", "bad_status"}
HttpOutcomes == {"ok"} \cup HttpFailures

\* Shape of a fetched page for the strategy reading it: the expected
\* elements are there, the expected element is absent, or the markup makes
\* the extraction code raise.
Pages == {"items", "absent", "malformed"}

(***************************************************************************)
(* Time.  An instant (a UTC datetime) is <<minute, second>>; only the      *)
(* minute survives strftime("%Y-%m-%d %H:%M").                             *)
(***************************************************************************)
\* Last minute of the window of instants explored.
MaxMinute == 1

Instants == (0..MaxMinute) \X {0, 30}

\* a is not earlier than b.
NotBefore(a, b) == a[1] > b[1] \/ (a[1] = b[1] /\ a[2] >= b[2])

\* The ISO-8601 string with a Z suffix that both
\* utc_now.isoformat().replace("+00:00", "Z") (scraping.py) and
\* datetime.utcnow().isoformat() + "Z" (software.py) build.
IsoFormatZ(t) == <<"Z", t[1], t[2]>>

\* A fetched_at value that datetime.fromisoformat rejects.
MalformedStamp == <<"not-a-date">>

\* Lines 141-143: whether fromisoformat(s.replace("Z", "+00:00")) succeeds,
\* and the datetime it gives.
IsIsoFormat(s) == Len(s) = 3 /\ s[1] = "Z"
FromIsoFormat(s) == <<s[2], s[3]>>

\* The instants of one run lie in one window of consecutive minutes that
\* starts at 00:59 UTC of some day.  Europe/Kyiv changes its offset at 01:00
\* UTC, on the last Sunday of March (to summer time) and of October (back):
\* the window lies in winter or in summer, or it has one of the two changes
\* after its first minute.
Seasons == {"winter", "summer", "dst_start", "dst_end"}

\* The season of the runs that do not explore the clock: the day summer time
\* ends, on which both offsets occur.
RunSeason == "dst_end"

\* Offset of Europe/Kyiv from UTC, in minutes, at a minute of the window.
KyivUtcOffset(s, minute) ==
    CASE s = "winter"    -> 120
      [] s = "summer"    -> 180
      [] s = "dst_start" -> IF minute < 1 THEN 120 ELSE 180
      [] s = "dst_end"   -> IF minute < 1 THEN 180 ELSE 120

(***************************************************************************)
(* utils.py clean_text.  A text is a sequence of characters; the           *)
(* characters explored are a letter and two whitespace characters.         *)
(***************************************************************************)
\* Longest text, and largest max_chars, explored.
MaxTextLen == 5
MaxChars == 3

Whitespace == {" ", "\n"}
Characters == {"a"} \cup Whitespace

Texts == UNION {[1..n -> Characters] : n \in 0..MaxTextLen}

\* max_chars is an int (every caller in the repository uses the default,
\* 300): the limits explored include a negative one, for which
\* cleaned[:max_chars] is a slice from the end.
Limits == -1..MaxChars

\* str.lstrip(), str.rstrip(), str.strip()
RECURSIVE LStrip(_)
LStrip(text) ==
    IF text # <<>> /\ Head(text) \in Whitespace THEN LStrip(Tail(text)) ELSE text

RECURSIVE RStrip(_)
RStrip(text) ==
    IF text # <<>> /\ text[Len(text)] \in Whitespace
    THEN RStrip(SubSeq(text, 1, Len(text) - 1))
    ELSE text

Strip(text) == RStrip(LStrip(text))

\* re.sub(r"\s+", " ", text): every maximal run of whitespace becomes one
\* space.
RECURSIVE CollapseWhitespace(_)
CollapseWhitespace(text) ==
    IF text = <<>>
    THEN <<>>
    ELSE IF Head(text) \in Whitespace
         THEN <<" ">> \o CollapseWhitespace(LStrip(text))
         ELSE <<Head(text)>> \o CollapseWhitespace(Tail(text))

\* A slice that keeps the whole text.
SliceToWhole(text, n) == text

\* Python text[:n]: the first n characters, or all but the last -n when n
\* is negative.
SliceTo(text, n) ==
    IF n >= 0
    THEN SubSeq(text, 1, IF n < Len(text) THEN n ELSE Len(text))
    ELSE SubSeq(text, 1, IF Len(text) + n > 0 THEN Len(text) + n ELSE 0)

Ellipsis == <<".", ".", ".">>

\* utils.py clean_text, lines 19-23.
clean_text(text, max_chars) ==
    LET cleaned == CollapseWhitespace(Strip(text))
    IN  IF Len(cleaned) > max_chars
        THEN RStrip(SliceTo(cleaned, max_chars)) \o Ellipsis
        ELSE cleaned

\* The state of a call of clean_text, and no call at all.
Call(at, text, max_chars, result) ==
    [at |-> at, text |-> text, max_chars |-> max_chars, result |-> result]

NoCall == Call("none", <<>>, 0, <<>>)

\* The calls of format_output on one input, and no call at all.  The
\* input is the items() view of the dict passed: one (name, elements) pair
\* per key, elements being what iterating over the value yields.
FormatCall(at, input, outcomes) ==
    [at |-> at, input |-> input, outcomes |-> outcomes]

NoFormatCall == FormatCall("none", <<>>, <<>>)

VARIABLES
    season,             \* where in the year the instants of the run lie
    config_file,        \* config.json
    pc,                 \* position of get_updates
    sources,            \* load_config()
    idx,                \* position of the scheduling loop in sources (1-based)
    tasks,              \* dict name -> coroutine
    source_categories,  \* dict name -> category
    created,            \* every coroutine object created while scheduling
    coro,               \* run state of each coroutine of tasks, by name
    updates,            \* categorized_results: dict category -> dict name -> records
    metadata,           \* the metadata dict of the result
    result_keys,        \* keys of the dict get_updates returned (once pc = "done")
    settle_order,       \* history: names of the coroutines in the order they
                        \* finished, as logged by the steps of ObservedSpec
    clean_call,         \* a call of clean_text: its arguments and its result
    format_call         \* the calls of format_output on one input: the input
                        \* and the outcome of each call

vars == <<season, config_file, pc, sources, idx, tasks, source_categories,
          created, coro, updates, metadata, result_keys, settle_order, clean_call,
          format_call>>

\* A load_config without the try/except: the error of open/json.load
\* propagates out of get_updates.
LoadConfigRaisesOnError(file) == ~file.loadable

\* scraping.py load_config, lines 50-55: every exception of open/json.load
\* is caught.
LoadConfigRaises(file) == FALSE

\* scraping.py load_config: the "sources" list of the file, [] after a
\* caught error.
load_config == IF config_file.loadable THEN config_file.sources ELSE <<>>

\* The state before get_updates is called, with one of the config files.
InitWith(files) ==
    /\ config_file \in files
    /\ pc = "start"
    /\ sources = <<>>
    /\ idx = 1
    /\ tasks = EmptyDict
    /\ source_categories = EmptyDict
    /\ created = <<>>
    /\ coro = <<>>
    /\ updates = EmptyDict
    /\ metadata = <<>>
    /\ result_keys = {}
    /\ settle_order = <<>>
    /\ clean_call = NoCall
    /\ format_call = NoFormatCall
    /\ season = RunSeason

Init == InitWith(ConfigFiles)

(***************************************************************************)
(* get_updates, lines 78-81: load the config; no sources, return {}        *)
(* (result_keys stays empty).                                              *)
(***************************************************************************)
LoadConfig ==
    /\ pc = "start"
    /\ IF LoadConfigRaises(config_file)
       THEN /\ pc' = "raised"
            /\ UNCHANGED sources
       ELSE /\ sources' = load_config
            /\ IF sources' = <<>>
               THEN pc' = "done"
               ELSE pc' = "schedule"
    /\ UNCHANGED <<season, config_file, result_keys, idx, tasks, source_categories,
                   created, coro, updates, metadata, settle_order, clean_call,
                   format_call>>

(***************************************************************************)
(* get_updates, lines 91-115: one iteration of the scheduling loop.        *)
(***************************************************************************)
\* The coroutine object a call of a strategy creates; entry is the index of
\* the config entry it was created for.
Coroutine(func, url, selector, entry) ==
    [func |-> func, url |-> url, css_selector |-> selector, entry |-> entry]

\* No coroutine: the entry is skipped with a warning.
NoTask == Coroutine(None, None, None, 0)

\* A validation that looks at the name only.
MalformedNameOnly(source) == ~Truthy(Get(source, "name", None))

\* Lines 98-100: `if not name or not url: continue`.
Malformed(source) ==
    ~Truthy(Get(source, "name", None)) \/ ~Truthy(Get(source, "url", None))

\* A resolution in which an unregistered custom name falls through to the
\* selector branch.
ResolveTaskSelectorFallback(source, entry) ==
    LET name     == Get(source, "name", None)
        url      == Get(source, "url", None)
        selector == Get(source, "css_selector", None)
        mode     == Get(source, "mode", "default")
    IN  IF mode = "custom" /\ RegistryGet(name) # None
        THEN Coroutine(RegistryGet(name), url, None, entry)
        ELSE IF Truthy(selector)
             THEN Coroutine("fetch_by_selector", url, selector, entry)
             ELSE NoTask

\* Lines 104-115: the coroutine created for a well-formed entry, or NoTask.
ResolveTask(source, entry) ==
    LET name     == Get(source, "name", None)
        url      == Get(source, "url", None)
        selector == Get(source, "css_selector", None)
        mode     == Get(source, "mode", "default")
    IN  IF mode = "custom"
        THEN IF RegistryGet(name) # None
             THEN Coroutine(RegistryGet(name), url, None, entry)
             ELSE NoTask
        ELSE IF Truthy(selector)
             THEN Coroutine("fetch_by_selector", url, selector, entry)
             ELSE NoTask

ScheduleSource ==
    /\ pc = "schedule"
    /\ idx <= Len(sources)
    /\ LET source   == sources[idx]
           name     == Get(source, "name", None)
           category == Get(source, "category", "uncategorized")
           task     == ResolveTask(source, idx)
       IN  IF Malformed(source)
           THEN UNCHANGED <<tasks, source_categories, created>>
           ELSE /\ source_categories' = DictSet(source_categories, name, category)
                /\ IF task # NoTask
                   THEN /\ tasks' = DictSet(tasks, name, task)
                        /\ created' = Append(created, task)
                   ELSE UNCHANGED <<tasks, created>>
    /\ idx' = idx + 1
    /\ UNCHANGED <<season, config_file, pc, sources, coro, updates, metadata,
                   result_keys, settle_order, clean_call, format_call>>

(***************************************************************************)
(* The coroutines.  A coroutine runs from one await to the next in one     *)
(* step; its awaits are the HTTP GET and the backoff sleep.                *)
(***************************************************************************)
\* A coroutine that gather has started and that has not reached an await.
NewRun ==
    [pc |-> "get", attempt |-> 0, calls |-> <<>>, sleeps |-> 0,
     fetch |-> "pending", fetch_exc |-> None, page |-> None,
     result |-> <<>>, exc |-> None]

\* Records a strategy builds from a page that has the expected elements.
\* The software strategies return one record, with their own fetched_at
\* (fetch_vim_version sets none); fetch_news and fetch_by_selector return one
\* record per element, without fetched_at.
\* t is datetime.utcnow() at the time the strategy builds its record.
SetsFetchedAt(func) == func \in SoftwareFuncs \ {"fetch_vim_version"}

\* A slice that is not capped.
TakeAll(seq, n) == seq

\* Python seq[:n] for n >= 0.
Take(seq, n) == SubSeq(seq, 1, IF n < Len(seq) THEN n ELSE Len(seq))

\* fetch_by_selector, lines 66-71.  matched is soup.select(css_selector),
\* one boolean per matched element: whether el.text.strip() is non-empty.
\* The list is cut to MAX_HEADLINES elements first, then one record is
\* built for each element of the cut list that has text (n: its position
\* in the cut list).
RECURSIVE RecordsOfElements(_, _, _)
RecordsOfElements(c, elements, k) ==
    IF k > Len(elements)
    THEN <<>>
    ELSE IF elements[k]
         THEN <<[entry |-> c.entry, func |-> c.func, n |-> k]>>
                 \o RecordsOfElements(c, elements, k + 1)
         ELSE RecordsOfElements(c, elements, k + 1)

SelectorRecords(c, matched) ==
    RecordsOfElements(c, Take(matched, MAX_HEADLINES), 1)

\* The matched elements of a page of shape "items": two, both with text.
ItemsPage == <<TRUE, TRUE>>

PageRecords(c, t) ==
    IF c.func \in SoftwareFuncs
    THEN IF SetsFetchedAt(c.func)
         THEN << [entry |-> c.entry, func |-> c.func, n |-> 1,
                  fetched_at |-> IsoFormatZ(t)] >>
         ELSE << [entry |-> c.entry, func |-> c.func, n |-> 1] >>
    ELSE IF c.func = "fetch_by_selector"
         THEN SelectorRecords(c, ItemsPage)
         ELSE [k \in 1..2 |-> [entry |-> c.entry, func |-> c.func, n |-> k]]

\* The extraction code of a strategy on a fetched page: it raises on markup
\* it does not expect, returns [] when the expected element is absent.
Extract(c, page, t) ==
    [raised  |-> page = "malformed",
     records |-> IF page = "items" THEN PageRecords(c, t) ELSE <<>>]

\* A loop that goes on for one attempt more than the budget.
FetchWithRetryStepExtraAttempt(attempt, o) ==
    IF o = "ok" THEN "return"
    ELSE IF attempt < RETRY_ATTEMPTS THEN "sleep" ELSE "raise"

\* A loop that ends without re-raising after the last failed attempt.
FetchWithRetryStepSwallow(attempt, o) ==
    IF o = "ok" THEN "return"
    ELSE IF attempt < RETRY_ATTEMPTS - 1 THEN "sleep" ELSE "return"

\* utils.py fetch_with_retry, one iteration of `for attempt in range(...)`
\* after the GET ended with outcome o: return the body, sleep and go on,
\* or re-raise.
FetchWithRetryStep(attempt, o) ==
    IF o = "ok" THEN "return"
    ELSE IF attempt < RETRY_ATTEMPTS - 1 THEN "sleep" ELSE "raise"

\* news.py fetch_news, lines 10-13: session.get once, raise_for_status.
DirectGetStep(attempt, o) ==
    IF o = "ok" THEN "return" ELSE "raise"

\* How the strategy obtains its page: fetch_news calls session.get itself,
\* every other strategy awaits fetch_with_retry.
UsesFetchWithRetry(func) == func \notin NewsFuncs

FetchStep(func, attempt, o) ==
    IF UsesFetchWithRetry(func)
    THEN FetchWithRetryStep(attempt, o)
    ELSE DirectGetStep(attempt, o)

\* The strategies whose body is wrapped in `try: ... except Exception:
\* return []`: fetch_by_selector and software.py; news.py has no handler.
CatchesExceptions(func) == func \notin NewsFuncs

\* The coroutine ends by raising e: caught at the strategy boundary and
\* turned into [], or propagated to gather.
StrategyRaise(c, run, e) ==
    IF CatchesExceptions(c.func)
    THEN [run EXCEPT !.pc = "returned", !.result = <<>>]
    ELSE [run EXCEPT !.pc = "raised", !.exc = e]

\* The coroutine from the completion of a GET (outcome o, page shape page,
\* at instant t)
\* to its next await or its end.
AfterGet(c, run, o, page, t) ==
    LET step == FetchStep(c.func, run.attempt, o)
        r1   == [run EXCEPT !.calls = Append(@, o)]
    IN  CASE step = "sleep" ->
               [r1 EXCEPT !.pc = "sleep", !.sleeps = @ + 1]
          [] step = "raise" ->
               StrategyRaise(c, [r1 EXCEPT !.fetch = "raised", !.fetch_exc = o], o)
          [] step = "return" ->
               LET r2 == [r1 EXCEPT !.fetch = "returned", !.page = page]
                   ex == Extract(c, page, t)
               IN  IF ex.raised
                   THEN StrategyRaise(c, r2, "extraction_error")
                   ELSE [r2 EXCEPT !.pc = "returned", !.result = ex.records]

\* get_updates, line 117: gather starts every coroutine of tasks.values().
Gather ==
    /\ pc = "schedule"
    /\ idx > Len(sources)
    /\ pc' = "gather"
    /\ coro' = [n \in DOMAIN tasks.val |-> NewRun]
    /\ UNCHANGED <<season, config_file, sources, idx, tasks, source_categories,
                   created, updates, metadata, result_keys, settle_order,
                   clean_call, format_call>>

\* The coroutine has finished, by returning or by raising.
Settled(run) == run.pc \in {"returned", "raised"}

\* A GET of coroutine n completes and the coroutine runs on to its next
\* await or to its end.
GetCompletes(n) ==
    /\ pc = "gather"
    /\ coro[n].pc = "get"
    /\ \E o \in HttpOutcomes :
         \E page \in IF o = "ok" THEN Pages ELSE {None} :
           \E t \in IF o = "ok" /\ page = "items" /\ SetsFetchedAt(tasks.val[n].func)
                    THEN Instants ELSE {<<0, 0>>} :
              coro' = [coro EXCEPT ![n] = AfterGet(tasks.val[n], @, o, page, t)]
    /\ UNCHANGED <<season, config_file, pc, sources, idx, tasks, source_categories,
                   created, updates, metadata, result_keys, clean_call,
                   format_call>>

HttpGet(n) == GetCompletes(n) /\ UNCHANGED settle_order

\* The same step, with the completion logged when the coroutine finishes.
ObservedHttpGet(n) ==
    /\ GetCompletes(n)
    /\ settle_order' = IF Settled(coro'[n]) THEN Append(settle_order, n)
                       ELSE settle_order

\* fetch_with_retry, line 34: the backoff sleep of coroutine n ends and the
\* loop goes to its next attempt.
BackoffDone(n) ==
    /\ pc = "gather"
    /\ coro[n].pc = "sleep"
    /\ coro' = [coro EXCEPT ![n].pc = "get", ![n].attempt = @ + 1]
    /\ UNCHANGED <<season, config_file, pc, sources, idx, tasks, source_categories,
                   created, updates, metadata, result_keys, settle_order,
                   clean_call, format_call>>

(***************************************************************************)
(* get_updates, lines 117-162: collect the results and assemble.           *)
(***************************************************************************)

\* gather without return_exceptions: the first exception of a coroutine
\* propagates out of get_updates.
GatherRaisesFirstException(runs) == \E n \in DOMAIN runs : runs[n].pc = "raised"

\* Line 117, return_exceptions=True: gather never raises; the exception of
\* a coroutine becomes its entry of the result list.
GatherRaises(runs) == FALSE

\* A gather that hands control back on the first exception, while other
\* coroutines are still running.
GatherDoneOnFirstException(runs) ==
    \/ \E n \in DOMAIN runs : runs[n].pc = "raised"
    \/ \A n \in DOMAIN runs : Settled(runs[n])

\* A gather that resumes only once every coroutine has returned a value.
GatherDoneWhenAllReturned(runs) ==
    \A n \in DOMAIN runs : runs[n].pc = "returned"

\* Line 117: `await asyncio.gather(...)` resumes get_updates once every
\* coroutine has finished.
GatherDone(runs) == \A n \in DOMAIN runs : Settled(runs[n])

\* A result list in the order the coroutines finished.
GatherResultsAsCompleted(ks, runs) ==
    [i \in 1..Len(ks) |->
        LET n == IF i <= Len(settle_order) THEN settle_order[i] ELSE ks[i]
        IN  IF runs[n].pc = "raised"
            THEN [is_exception |-> TRUE, exc |-> runs[n].exc, value |-> <<>>]
            ELSE [is_exception |-> FALSE, exc |-> None, value |-> runs[n].result]]

\* The list gather returns: one entry per coroutine, in the order of
\* tasks.values().
GatherResults(ks, runs) ==
    [i \in 1..Len(ks) |->
        IF runs[ks[i]].pc = "raised"
        THEN [is_exception |-> TRUE, exc |-> runs[ks[i]].exc, value |-> <<>>]
        ELSE [is_exception |-> FALSE, exc |-> None, value |-> runs[ks[i]].result]]

\* astimezone(kyiv_tz).strftime("%Y-%m-%d %H:%M") of an instant: the local
\* wall-clock minute, seconds dropped.
KyivStamp(t) == <<"Europe/Kyiv", t[1] + KyivUtcOffset(season, t[1])>>

\* A fallback to the first instant of the window instead of utc_now.
StampSourceEpochFallback(item, utc_now) ==
    IF "fetched_at" \in DOMAIN item /\ IsIsoFormat(item.fetched_at)
    THEN FromIsoFormat(item.fetched_at)
    ELSE <<0, 0>>

\* Lines 139-147: the instant the localized stamp is computed from.
StampSource(item, utc_now) ==
    IF "fetched_at" \in DOMAIN item
    THEN IF IsIsoFormat(item.fetched_at)
         THEN FromIsoFormat(item.fetched_at)
         ELSE utc_now
    ELSE utc_now

\* A loop body that stamps only the records that carry no fetched_at.
StampRecordIfUnstamped(item, utc_now) ==
    IF "fetched_at" \in DOMAIN item
    THEN item
    ELSE [k \in DOMAIN item \cup {"fetched_at", "fetched_at_kyiv"} |->
            CASE k = "fetched_at"      -> IsoFormatZ(utc_now)
              [] k = "fetched_at_kyiv" -> KyivStamp(utc_now)
              [] OTHER                 -> item[k]]

\* Lines 136-149: new_item, the copy of a record with the two stamps.
StampRecord(item, utc_now) ==
    [k \in DOMAIN item \cup {"fetched_at", "fetched_at_kyiv"} |->
        CASE k = "fetched_at"      -> IsoFormatZ(utc_now)
          [] k = "fetched_at_kyiv" -> KyivStamp(StampSource(item, utc_now))
          [] OTHER                 -> item[k]]

\* Lines 130-153: the record list stored for one result of gather.
SlotRecords(result, utc_now) ==
    IF result.is_exception
    THEN <<>>
    ELSE [k \in 1..Len(result.value) |-> StampRecord(result.value[k], utc_now)]

\* Lines 127-153: one iteration of the loop on categorized_results = acc:
\* create the bucket on first use, store the record list under the name.
PutSlot(acc, category, name, records) ==
    LET bucket == IF Has(acc, category) THEN acc.val[category] ELSE EmptyDict
    IN  DictSet(acc, category, DictSet(bucket, name, records))

\* Lines 124-153: the loop over zip(tasks.keys(), results), from position i
\* on, with categorized_results = acc.
RECURSIVE GroupResults(_, _, _, _, _, _)
GroupResults(ks, results, cats, utc_now, i, acc) ==
    IF i > Len(ks) \/ i > Len(results)
    THEN acc
    ELSE LET name     == ks[i]
             category == IF Has(cats, name) THEN cats.val[name]
                         ELSE "uncategorized"
         IN  GroupResults(ks, results, cats, utc_now, i + 1,
                          PutSlot(acc, category, name,
                                  SlotRecords(results[i], utc_now)))

\* Line 158.
TotalSources(t) == DictLen(t)

\* Lines 117-162 with utc_now (line 120) read as one of the instants nows,
\* none earlier than a stamp a strategy has already taken.
\* A loop body that assigns the stamps to the strategy's record itself.
ItemAfterStampInPlace(item, new_item) == new_item

\* Lines 136-151: the strategy's record after one iteration of the inner
\* loop; new_item is item.copy(), and every assignment goes to new_item.
ItemAfterStamp(item, new_item) == item

\* Lines 124-153: the coroutines' own result lists after the loop.
ResultsAfterAssembly(runs, utc_now) ==
    [n \in DOMAIN runs |->
        IF runs[n].pc = "returned"
        THEN [runs[n] EXCEPT !.result =
                 [k \in 1..Len(runs[n].result) |->
                     ItemAfterStamp(runs[n].result[k],
                                    StampRecord(runs[n].result[k], utc_now))]]
        ELSE runs[n]]

AssembleAt(nows) ==
    /\ pc = "gather"
    /\ GatherDone(coro)
    /\ IF GatherRaises(coro)
       THEN /\ pc' = "raised"
            /\ UNCHANGED <<updates, metadata, result_keys, coro>>
       ELSE \E utc_now \in nows :
            /\ coro' = ResultsAfterAssembly(coro, utc_now)
            /\ \A n \in DOMAIN coro : \A k \in 1..Len(coro[n].result) :
                  NotBefore(utc_now, StampSource(coro[n].result[k], utc_now))
            /\ pc' = "done"
            /\ updates' = GroupResults(tasks.keys,
                                       GatherResults(tasks.keys, coro),
                                       source_categories, utc_now, 1, EmptyDict)
            /\ metadata' = [fetched_at      |-> IsoFormatZ(utc_now),
                            fetched_at_kyiv |-> KyivStamp(utc_now),
                            total_sources   |-> TotalSources(tasks),
                            categories      |-> updates'.keys]
            /\ result_keys' = {"metadata", "updates"}
    /\ UNCHANGED <<season, config_file, sources, idx, tasks, source_categories,
                   created, settle_order, clean_call, format_call>>

\* The assembly of a batch that ends at the last instant of the window.
AssembleResults == AssembleAt({<<MaxMinute, 30>>})

Next ==
    \/ LoadConfig
    \/ ScheduleSource
    \/ Gather
    \/ \E n \in DOMAIN coro : HttpGet(n)
    \/ \E n \in DOMAIN coro : BackoffDone(n)
    \/ AssembleResults

Spec == Init /\ [][Next]_vars

(***************************************************************************)
(* The same run with the completion order of the coroutines logged, on     *)
(* configs of sources with different strategies: a news strategy (one GET, *)
(* raises on failure), a software strategy of another category, a selector *)
(* source of the news strategy's category (both retried), and an entry     *)
(* that is skipped but shares its name with a scheduled one.               *)
(***************************************************************************)
ObservedEntries ==
    { Entry("BBC",  SiteUrl, Absent, "custom", "news"),
      Entry("Vim",  SiteUrl, Absent, "custom", "software"),
      Entry("Vim",  SiteUrl, Absent, Absent,   "news"),
      Entry("Blog", SiteUrl, "h2 a", Absent,   "news") }

InitObserved ==
    InitWith({ConfigFile(TRUE, entries) :
                 entries \in UNION {[1..n -> ObservedEntries] : n \in 0..MaxSources}})

NextObserved ==
    \/ LoadConfig
    \/ ScheduleSource
    \/ Gather
    \/ \E n \in DOMAIN coro : ObservedHttpGet(n)
    \/ \E n \in DOMAIN coro : BackoffDone(n)
    \/ AssembleResults

ObservedSpec == InitObserved /\ [][NextObserved]_vars

(***************************************************************************)
(* The run under fair scheduling: get_updates goes on whenever it can, the *)
(* event loop resumes every coroutine whose GET has completed or whose     *)
(* backoff sleep is over, and every GET completes (ClientTimeout(total=10) *)
(* ends one that gets no answer).                                          *)
(***************************************************************************)
Fairness ==
    /\ WF_vars(LoadConfig)
    /\ WF_vars(ScheduleSource)
    /\ WF_vars(Gather)
    /\ WF_vars(AssembleResults)
    /\ \A n \in ConfigNames :
          /\ WF_vars(n \in DOMAIN coro /\ HttpGet(n))
          /\ WF_vars(n \in DOMAIN coro /\ BackoffDone(n))

FairSpec == InitObserved /\ [][Next]_vars /\ Fairness

(***************************************************************************)
(* clean_text on its own: a call with any text of up to MaxTextLen         *)
(* characters and any limit, and its return.                               *)
(***************************************************************************)
InitClean ==
    /\ config_file = ConfigFile(TRUE, <<>>)
    /\ pc = "start"
    /\ sources = <<>>
    /\ idx = 1
    /\ tasks = EmptyDict
    /\ source_categories = EmptyDict
    /\ created = <<>>
    /\ coro = <<>>
    /\ updates = EmptyDict
    /\ metadata = <<>>
    /\ result_keys = {}
    /\ settle_order = <<>>
    /\ clean_call \in {Call("called", text, max_chars, <<>>) :
                          text \in Texts, max_chars \in Limits}
    /\ format_call = NoFormatCall
    /\ season = RunSeason

CleanText ==
    /\ clean_call.at = "called"
    /\ clean_call' = [clean_call EXCEPT
                        !.at = "returned",
                        !.result = clean_text(clean_call.text,
                                              clean_call.max_chars)]
    /\ UNCHANGED <<season, config_file, pc, sources, idx, tasks, source_categories,
                   created, coro, updates, metadata, result_keys,
                   settle_order, format_call>>

CleanSpec == InitClean /\ [][CleanText]_vars

(***************************************************************************)
(* fetch_by_selector on its own: the coroutine of one selector source, at  *)
(* its GET, and the step in which the GET returns a page on which the      *)
(* selector matches any list of up to MaxMatches elements, with or without *)
(* text.                                                                   *)
(***************************************************************************)
\* Most elements a selector matches on a page explored.
MaxMatches == 8

SelectorEntry == Entry("Blog", SiteUrl, "h2 a", Absent, Absent)

MatchedLists == UNION {[1..n -> BOOLEAN] : n \in 0..MaxMatches}

InitSelector ==
    /\ config_file = ConfigFile(TRUE, <<SelectorEntry>>)
    /\ pc = "gather"
    /\ sources = load_config
    /\ idx = Len(sources) + 1
    /\ tasks = DictSet(EmptyDict, SelectorEntry.name, ResolveTask(SelectorEntry, 1))
    /\ source_categories = DictSet(EmptyDict, SelectorEntry.name, "uncategorized")
    /\ created = <<ResolveTask(SelectorEntry, 1)>>
    /\ coro = [n \in {SelectorEntry.name} |-> NewRun]
    /\ updates = EmptyDict
    /\ metadata = <<>>
    /\ result_keys = {}
    /\ settle_order = <<>>
    /\ clean_call = NoCall
    /\ format_call = NoFormatCall
    /\ season = RunSeason

\* Lines 64-71: the GET of coroutine n returns a page; the coroutine builds
\* its records from the elements matched and returns them.
SelectorGet(n) ==
    /\ pc = "gather"
    /\ coro[n].pc = "get"
    /\ tasks.val[n].func = "fetch_by_selector"
    /\ \E matched \in MatchedLists :
          coro' = [coro EXCEPT ![n] =
                     [@ EXCEPT !.pc = "returned", !.calls = Append(@, "ok"),
                               !.fetch = "returned", !.page = matched,
                               !.result = SelectorRecords(tasks.val[n], matched)]]
    /\ UNCHANGED <<season, config_file, pc, sources, idx, tasks, source_categories,
                   created, updates, metadata, result_keys, settle_order,
                   clean_call, format_call>>

NextSelector == \E n \in DOMAIN coro : SelectorGet(n)

SelectorSpec == InitSelector /\ [][NextSelector]_vars

(***************************************************************************)
(* The assembly loop on its own: get_updates at line 117 with one          *)
(* scheduled source whose coroutine has returned.  The list it returned is *)
(* any list of up to MaxItems records of the strategy interface            *)
(* (List[Dict[str, str]]): a record has no fetched_at, a fetched_at the    *)
(* strategy took from the clock, or a fetched_at string that               *)
(* fromisoformat rejects.                                                  *)
(***************************************************************************)
\* Longest record list a strategy returns to the assembly loop explored.
MaxItems == 2

StampedEntry == Entry("cmus", SiteUrl, Absent, "custom", "software")

\* Stands for "the record has no fetched_at key".
NoStamp == <<>>

StrategyStamps ==
    {NoStamp, MalformedStamp} \cup {IsoFormatZ(t) : t \in Instants}

\* The k-th record of a returned list, carrying the stamp given.
StrategyRecord(c, k, stamp) ==
    IF stamp = NoStamp
    THEN [entry |-> c.entry, func |-> c.func, n |-> k]
    ELSE [entry |-> c.entry, func |-> c.func, n |-> k, fetched_at |-> stamp]

StrategyResults(c) ==
    UNION {{[k \in 1..len |-> StrategyRecord(c, k, stamps[k])] :
               stamps \in [1..len -> StrategyStamps]} : len \in 0..MaxItems}

InitAssemble ==
    /\ config_file = ConfigFile(TRUE, <<StampedEntry>>)
    /\ pc = "gather"
    /\ sources = load_config
    /\ idx = Len(sources) + 1
    /\ tasks = DictSet(EmptyDict, StampedEntry.name, ResolveTask(StampedEntry, 1))
    /\ source_categories =
          DictSet(EmptyDict, StampedEntry.name, StampedEntry.category)
    /\ created = <<ResolveTask(StampedEntry, 1)>>
    /\ settle_order = <<StampedEntry.name>>
    /\ clean_call = NoCall
    /\ format_call = NoFormatCall
    /\ season \in Seasons
    /\ \E result \in StrategyResults(ResolveTask(StampedEntry, 1)) :
          coro = [n \in {StampedEntry.name} |->
                    [NewRun EXCEPT !.pc = "returned", !.calls = <<"ok">>,
                                   !.fetch = "returned",
                                   !.page = IF result = <<>> THEN "absent"
                                            ELSE "items",
                                   !.result = result]]
    /\ updates = EmptyDict
    /\ metadata = <<>>
    /\ result_keys = {}

\* The assembly of a batch at any instant of the window.
AssembleAnyTime == AssembleAt(Instants)

AssembleSpec == InitAssemble /\ [][AssembleAnyTime]_vars

(***************************************************************************)
(* scraping.py format_output, lines 165-172.  The string returned is kept  *)
(* as its sequence of lines (the pieces "\n".join and the "\n" inside the  *)
(* parts separate).  A record is the model record of its strategy; the     *)
(* keys its dict has are those the strategy sets and the stamps added by   *)
(* get_updates.                                                            *)
(***************************************************************************)
\* Keys of the dict a strategy returns (software.py lines 55-62, 132-139,
\* 273-281; scraping.py line 68; news.py line 26).
RecordKeys(func) ==
    IF func \in SoftwareFuncs
    THEN {"title", "latest_version", "description", "url"}
            \cup (IF SetsFetchedAt(func) THEN {"fetched_at"} ELSE {})
            \cup (IF func = "fetch_aShell_stable_version" THEN {"text"} ELSE {})
    ELSE {"text", "url"}

\* An element that is a str, as iterating over a dict yields.
StrElement(name) == [str |-> name]
IsStr(element) == "str" \in DOMAIN element

KeysOf(element) ==
    RecordKeys(element.func)
        \cup (DOMAIN element \cap {"fetched_at", "fetched_at_kyiv"})

\* element[key]: "ok", or the exception the subscript raises.
Subscript(element, key) ==
    IF IsStr(element) THEN "TypeError"
    ELSE IF key \notin KeysOf(element) THEN "KeyError"
    ELSE "ok"

\* One line of the output.
Line(kind, name, entry, n) == [kind |-> kind, name |-> name, entry |-> entry, n |-> n]

TitleLine == Line("Updates", "", 0, 0)
BlankLine == Line("", "", 0, 0)
HeaderLine(name) == Line("**name**", name, 0, 0)
DividerLine == Line("--------------------", "", 0, 0)
TextLine(item) == Line("text", item.func, item.entry, item.n)
LinkLine(item) == Line("[URL](url)", item.func, item.entry, item.n)

Formatted(lines) == [raised |-> FALSE, exc |-> None, lines |-> lines]
FormatRaised(exc) == [raised |-> TRUE, exc |-> exc, lines |-> <<>>]

\* Line 170: the inner loop from element k on, lines being the output so
\* far; f"{item['text']}\n[URL]({item['url']})\n" is three lines once joined.
RECURSIVE FormatItems(_, _, _)
FormatItems(elems, k, lines) ==
    IF k > Len(elems)
    THEN Formatted(lines)
    ELSE IF Subscript(elems[k], "text") # "ok"
         THEN FormatRaised(Subscript(elems[k], "text"))
         ELSE IF Subscript(elems[k], "url") # "ok"
              THEN FormatRaised(Subscript(elems[k], "url"))
              ELSE FormatItems(elems, k + 1,
                      lines \o <<TextLine(elems[k]), LinkLine(elems[k]),
                                 BlankLine>>)

\* Lines 167-171: the outer loop from pair k of all_news.items() on.
RECURSIVE FormatSources(_, _, _)
FormatSources(input, k, lines) ==
    IF k > Len(input)
    THEN Formatted(lines)
    ELSE LET items == FormatItems(input[k].elems, 1,
                                  Append(lines, HeaderLine(input[k].name)))
         IN  IF items.raised
             THEN items
             ELSE FormatSources(input, k + 1, Append(items.lines, DividerLine))

\* Lines 165-172.
format_output(input) == FormatSources(input, 1, <<TitleLine, BlankLine>>)

\* dict.items() of a dict of lists, and the elements iterating over a dict
\* yields (its keys).
ItemsView(d) ==
    [k \in 1..Len(d.keys) |-> [name |-> d.keys[k], elems |-> d.val[d.keys[k]]]]

IterKeys(keys) == [k \in 1..Len(keys) |-> StrElement(keys[k])]

\* items() of the dict get_updates returned: {} (lines 79-81), or the dict
\* of line 162, whose values are the metadata dict and the updates dict.
BatchItemsView ==
    IF result_keys = {}
    THEN <<>>
    ELSE << [name  |-> "metadata",
             elems |-> IterKeys(<<"fetched_at", "fetched_at_kyiv",
                                  "total_sources", "categories">>)],
            [name  |-> "updates", elems |-> IterKeys(updates.keys)] >>

\* A call of format_output on the input returns or raises.
FormatOutput ==
    /\ format_call.at = "called"
    /\ Len(format_call.outcomes) < 2
    /\ format_call' = [format_call EXCEPT
                         !.outcomes = Append(@, format_output(format_call.input))]
    /\ UNCHANGED <<season, config_file, pc, sources, idx, tasks, source_categories,
                   created, coro, updates, metadata, result_keys,
                   settle_order, clean_call>>

(***************************************************************************)
(* format_output on a flat map name -> records (a bucket of updates): up   *)
(* to MaxDigestSources sources of different strategies, each with the      *)
(* records its strategy builds from a page, stamped, or with none.         *)
(***************************************************************************)
MaxDigestSources == 2

\* The name of a source and the strategy its records come from.
DigestSources ==
    [n \in {"Blog", "BBC", "Vim", "aShell"} |->
        IF n = "Blog" THEN "fetch_by_selector" ELSE SCRAPER_REGISTRY[n]]

DigestRecords(name, entry) ==
    LET c    == Coroutine(DigestSources[name], SiteUrl, None, entry)
        recs == PageRecords(c, <<0, 0>>)
    IN  [k \in 1..Len(recs) |-> StampRecord(recs[k], <<0, 0>>)]

Distinct(seq) == \A i, j \in 1..Len(seq) : i # j => seq[i] # seq[j]

FlatMaps ==
    UNION {
      {[keys |-> names,
        val  |-> [n \in {names[k] : k \in 1..len} |->
                    LET k == CHOOSE i \in 1..len : names[i] = n
                    IN  IF filled[k] THEN DigestRecords(n, k) ELSE <<>>]] :
          names \in {ns \in [1..len -> DOMAIN DigestSources] : Distinct(ns)},
          filled \in [1..len -> BOOLEAN]} :
      len \in 0..MaxDigestSources}

InitFormat ==
    /\ season = RunSeason
    /\ config_file = ConfigFile(TRUE, <<>>)
    /\ pc = "start"
    /\ sources = <<>>
    /\ idx = 1
    /\ tasks = EmptyDict
    /\ source_categories = EmptyDict
    /\ created = <<>>
    /\ coro = <<>>
    /\ updates = EmptyDict
    /\ metadata = <<>>
    /\ result_keys = {}
    /\ settle_order = <<>>
    /\ clean_call = NoCall
    /\ format_call \in {FormatCall("called", ItemsView(m), <<>>) : m \in FlatMaps}

FormatSpec == InitFormat /\ [][FormatOutput]_vars

(***************************************************************************)
(* format_output on the value get_updates returned: a run of get_updates   *)
(* on a config of up to one source, then the calls.                        *)
(***************************************************************************)
DigestEntries ==
    { Entry("BBC",  SiteUrl, Absent, "custom", "news"),
      Entry("Blog", SiteUrl, "h2 a", Absent,   Absent) }

InitBatchDigest ==
    /\ Init
    /\ config_file \in
          {ConfigFile(TRUE, <<>>)}
             \cup {ConfigFile(TRUE, <<e>>) : e \in DigestEntries}

\* format_output(result), result being the dict get_updates returned.
CallFormat ==
    /\ pc = "done"
    /\ format_call.at = "none"
    /\ format_call' = FormatCall("called", BatchItemsView, <<>>)
    /\ UNCHANGED <<season, config_file, pc, sources, idx, tasks, source_categories,
                   created, coro, updates, metadata, result_keys,
                   settle_order, clean_call>>

NextBatchDigest ==
    \/ LoadConfig
    \/ ScheduleSource
    \/ Gather
    \/ \E n \in DOMAIN coro : HttpGet(n)
    \/ \E n \in DOMAIN coro : BackoffDone(n)
    \/ AssembleResults
    \/ CallFormat
    \/ FormatOutput

BatchDigestSpec == InitBatchDigest /\ [][NextBatchDigest]_vars

(***************************************************************************)
(* Vocabulary of the properties.                                           *)
(***************************************************************************)
\* get_updates has returned the full result.
Returned == pc = "done" /\ "updates" \in result_keys

\* updates[category][name] exists.
HasSlot(category, name) ==
    Has(updates, category) /\ Has(updates.val[category], name)

\* updates[category][name]
Slot(category, name) == updates.val[category].val[name]

\* Names that have a task, and the category recorded for a name.
Scheduled == DOMAIN tasks.val
CategoryOf(name) == source_categories.val[name]

\* Every GET the coroutine made failed.
NeverSucceeded(run) == \A k \in 1..Len(run.calls) : run.calls[k] # "ok"

\* The coroutine has used up the attempts it makes, all of them failing.
BudgetExhausted(c, run) ==
    /\ Settled(run)
    /\ run.calls # <<>>
    /\ NeverSucceeded(run)

\* The shared instant of the batch, read back from metadata.fetched_at.
BatchInstant == FromIsoFormat(metadata.fetched_at)

\* The record list a source contributes, as a function of what its own
\* fetches and its own page did.
OwnRecords(c, run) ==
    IF run.calls # <<>> /\ run.calls[Len(run.calls)] = "ok" /\ run.page = "items"
    THEN [k \in 1..Len(run.result) |-> StampRecord(run.result[k], BatchInstant)]
    ELSE <<>>

(***************************************************************************)
(* C1 (isolation law): get_updates never raises because a source failed;   *)
(* when it returns, a source all of whose fetch attempts failed has an     *)
(* empty record list in its slot, and the record list of every scheduled   *)
(* source is the one its own fetch outcomes and page determine, whatever   *)
(* happened to the other sources.                                          *)
(***************************************************************************)
IsolationLaw ==
    /\ pc # "raised"
    /\ Returned =>
         \A n \in Scheduled :
            /\ HasSlot(CategoryOf(n), n)
            /\ BudgetExhausted(tasks.val[n], coro[n]) => Slot(CategoryOf(n), n) = <<>>
            /\ Slot(CategoryOf(n), n) = OwnRecords(tasks.val[n], coro[n])

\* One source failed on all 3 attempts of its budget and its slot is empty;
\* another source of the same batch has its records.
IsolationWitness ==
    /\ Returned
    /\ \E n, m \in Scheduled :
          /\ n # m
          /\ Len(coro[n].calls) = RETRY_ATTEMPTS
          /\ NeverSucceeded(coro[n])
          /\ Slot(CategoryOf(n), n) = <<>>
          /\ coro[m].page = "items"
          /\ Len(Slot(CategoryOf(m), m)) > 0

(***************************************************************************)
(* C2 (grouping law): when get_updates has returned, every record under    *)
(* updates[category][name] was produced by the task of a config entry      *)
(* whose name is that name and whose category (default "uncategorized")    *)
(* is that category.                                                       *)
(***************************************************************************)
GroupingLaw ==
    Returned =>
      \A c \in DOMAIN updates.val :
        \A n \in DOMAIN updates.val[c].val :
          \A k \in 1..Len(Slot(c, n)) :
             LET origin == sources[Slot(c, n)[k].entry]
             IN  /\ Get(origin, "name", None) = n
                 /\ Get(origin, "category", "uncategorized") = c

\* Every slot of updates, as <<category, name>>.
AllSlots ==
    UNION {{<<c, n>> : n \in DOMAIN updates.val[c].val} : c \in DOMAIN updates.val}

(***************************************************************************)
(* C4 (malformed entries): an entry whose name or url is missing or empty  *)
(* never gets a coroutine, so no fetch is made for it; when get_updates    *)
(* returns, no slot and no record comes from it, the slots are exactly     *)
(* the names of the other entries that resolve to a task, total_sources    *)
(* counts only those, and the batch has not raised.                        *)
(***************************************************************************)
MalformedIndices ==
    {i \in 1..Len(sources) :
        sources[i].name \in {None, Absent, ""}
           \/ sources[i].url \in {None, Absent, ""}}

\* Names of the entries that are well formed and resolve to a task.
SchedulableNames ==
    {Get(sources[i], "name", None) :
        i \in {j \in 1..Len(sources) :
                 /\ j \notin MalformedIndices
                 /\ ResolveTask(sources[j], j) # NoTask}}

MalformedNeverScheduled ==
    /\ pc # "raised"
    /\ \A k \in 1..Len(created) : created[k].entry \notin MalformedIndices
    /\ \A n \in Scheduled : tasks.val[n].entry \notin MalformedIndices
    /\ DOMAIN coro \subseteq Scheduled
    /\ Returned =>
         /\ \A c \in DOMAIN updates.val :
               /\ DOMAIN updates.val[c].val \subseteq SchedulableNames
               /\ \A n \in DOMAIN updates.val[c].val :
                    \A k \in 1..Len(Slot(c, n)) :
                       Slot(c, n)[k].entry \notin MalformedIndices
         /\ \A n \in SchedulableNames : \E c \in DOMAIN updates.val : HasSlot(c, n)
         /\ metadata.total_sources = Cardinality(SchedulableNames)

\* A batch with a malformed entry (here: no usable url) next to a scheduled
\* one has returned, with the scheduled one's records.
MalformedWitness ==
    /\ Returned
    /\ \E i \in MalformedIndices : sources[i].name = "BBC" /\ Get(sources[i], "url", None) = None
    /\ metadata.total_sources = 1
    /\ \E n \in Scheduled : Len(Slot(CategoryOf(n), n)) > 0

(***************************************************************************)
(* C5 (attempt budget): a call of fetch_with_retry makes at most           *)
(* RETRY_ATTEMPTS GETs; every GET before the last one made has failed      *)
(* (attempt k+1 is made only after attempts 1..k failed); and a successful *)
(* GET ends the call with its body: the call has returned, the coroutine   *)
(* holds that page, and no further GET or sleep is pending.                *)
(***************************************************************************)
\* The strategies that fetch through fetch_with_retry.
RetryCallers == SoftwareFuncs \cup {"fetch_by_selector"}

RetryRuns == {n \in DOMAIN coro : tasks.val[n].func \in RetryCallers}

AttemptBudget ==
    \A n \in RetryRuns :
       LET run == coro[n]
           made == Len(run.calls)
       IN  /\ made <= RETRY_ATTEMPTS
           /\ \A k \in 1..(made - 1) : run.calls[k] # "ok"
           /\ made = run.attempt + (IF run.pc = "get" THEN 0 ELSE 1)
           /\ (made > 0 /\ run.calls[made] = "ok")
                 => /\ run.fetch = "returned"
                    /\ run.page \in Pages
                    /\ run.pc \notin {"get", "sleep"}
           /\ run.fetch = "returned" => (made > 0 /\ run.calls[made] = "ok")

\* A call that failed twice and succeeded on its third attempt.
AttemptBudgetWitness ==
    \E n \in RetryRuns :
       /\ coro[n].calls = <<"timeout", "bad_status", "ok">>
       /\ coro[n].fetch = "returned"
       /\ coro[n].sleeps = 2

(***************************************************************************)
(* C6 (exhausted budget): when RETRY_ATTEMPTS GETs of a call of            *)
(* fetch_with_retry have failed, the call has raised, the exception is     *)
(* the failure of the last attempt, and no body was returned; the call     *)
(* raises in no other case.                                                *)
(***************************************************************************)
ExhaustedBudgetRaisesLast ==
    \A n \in RetryRuns :
       LET run == coro[n]
           exhausted == Len(run.calls) = RETRY_ATTEMPTS /\ NeverSucceeded(run)
       IN  /\ exhausted => /\ run.fetch = "raised"
                           /\ run.fetch_exc = run.calls[RETRY_ATTEMPTS]
                           /\ run.page = None
           /\ run.fetch = "raised" => exhausted

\* Three failed attempts whose last failure differs from the earlier ones.
ExhaustedBudgetWitness ==
    \E n \in RetryRuns :
       /\ coro[n].calls = <<"timeout", "timeout", "bad_status">>
       /\ coro[n].fetch = "raised"
       /\ coro[n].fetch_exc = "bad_status"

(***************************************************************************)
(* C7 (strategy boundary): no coroutine the aggregator schedules ends by   *)
(* raising: every strategy turns its exceptions into an empty sequence.    *)
(***************************************************************************)
NoStrategyRaises ==
    \A n \in DOMAIN coro : coro[n].pc # "raised"

(***************************************************************************)
(* C8 (retry for every source): a scheduled source becomes a source        *)
(* failure (settled without a successful GET) only after RETRY_ATTEMPTS    *)
(* failed attempts, with a backoff sleep between consecutive attempts.     *)
(***************************************************************************)
EveryFailedFetchRetried ==
    \A n \in DOMAIN coro :
       (Settled(coro[n]) /\ coro[n].calls # <<>> /\ NeverSucceeded(coro[n]))
          => /\ Len(coro[n].calls) = RETRY_ATTEMPTS
             /\ coro[n].sleeps = RETRY_ATTEMPTS - 1

(***************************************************************************)
(* C9 (task resolution): one iteration of the scheduling loop on an entry  *)
(* with non-empty name and url installs under the entry's name the         *)
(* registered strategy (mode custom, name registered), nothing (mode       *)
(* custom, name not registered, selector or not), the generic selector     *)
(* strategy bound to the entry's selector (any other mode, non-empty       *)
(* selector), or nothing; the loop goes on whatever the entry, and         *)
(* get_updates never raises.                                               *)
(***************************************************************************)
ResolutionStep ==
    (pc = "schedule" /\ idx <= Len(sources) /\ idx' = idx + 1) =>
       LET e == sources[idx]
       IN  /\ pc' = "schedule"
           /\ (e.name \notin {None, Absent, ""}
                 /\ e.url \notin {None, Absent, ""}) =>
                CASE e.mode = "custom" /\ e.name \in DOMAIN SCRAPER_REGISTRY ->
                       /\ Has(tasks', e.name)
                       /\ tasks'.val[e.name] =
                             [func |-> SCRAPER_REGISTRY[e.name], url |-> e.url,
                              css_selector |-> None, entry |-> idx]
                  [] e.mode = "custom" /\ e.name \notin DOMAIN SCRAPER_REGISTRY ->
                       tasks' = tasks /\ created' = created
                  [] e.mode # "custom" /\ e.css_selector \notin {None, Absent, ""} ->
                       /\ Has(tasks', e.name)
                       /\ tasks'.val[e.name] =
                             [func |-> "fetch_by_selector", url |-> e.url,
                              css_selector |-> e.css_selector, entry |-> idx]
                  [] OTHER ->
                       tasks' = tasks /\ created' = created

TaskResolution == [](pc # "raised") /\ [][ResolutionStep]_vars

\* A batch has returned in which an unregistered custom entry that has a
\* selector was skipped and another entry was scheduled.
TaskResolutionWitness ==
    /\ Returned
    /\ \E i \in 1..Len(sources) :
          /\ sources[i].mode = "custom"
          /\ sources[i].name = "Blog"
          /\ sources[i].css_selector = "h2 a"
    /\ "Blog" \notin Scheduled
    /\ Scheduled # {}

(***************************************************************************)
(* C10 (total_sources): when get_updates has returned, total_sources is    *)
(* the number of config entries for which a task was scheduled.            *)
(***************************************************************************)
ScheduledEntries ==
    {i \in 1..Len(sources) :
        i \notin MalformedIndices /\ ResolveTask(sources[i], i) # NoTask}

TotalSourcesCountsScheduledEntries ==
    Returned => metadata.total_sources = Cardinality(ScheduledEntries)

(***************************************************************************)
(* C3 (present but empty): when get_updates has returned, every entry for  *)
(* which a task was scheduled has the slot updates[category][name] of its  *)
(* own category and name, whatever the outcome of its task; the slot is    *)
(* the empty list when its task raised or extracted nothing; and every     *)
(* such entry is counted in metadata.total_sources.                        *)
(***************************************************************************)
ConfiguredCategory(i) == Get(sources[i], "category", "uncategorized")

SlotPresentForEveryScheduledEntry ==
    Returned =>
      /\ \A i \in ScheduledEntries :
            LET n == Get(sources[i], "name", None)
                c == ConfiguredCategory(i)
            IN  /\ HasSlot(c, n)
                /\ (/\ tasks.val[n].entry = i
                    /\ (coro[n].pc = "raised" \/ coro[n].result = <<>>))
                      => Slot(c, n) = <<>>
      /\ metadata.total_sources >= Cardinality(ScheduledEntries)

(***************************************************************************)
(* C11 (categories): when get_updates has returned, metadata.categories    *)
(* is the key list of updates in bucket-creation order, every listed       *)
(* category holds at least one source slot, and every listed category is   *)
(* the configured category of an entry for which a task was scheduled (an  *)
(* entry that was only skipped puts no category on the list).              *)
(***************************************************************************)
CategoriesOfScheduledEntries ==
    Returned =>
      /\ metadata.categories = updates.keys
      /\ \A c \in DOMAIN updates.val : updates.val[c].keys # <<>>
      /\ \A k \in 1..Len(metadata.categories) :
            \E i \in ScheduledEntries :
               Get(sources[i], "category", "uncategorized") = metadata.categories[k]

(***************************************************************************)
(* The stamps.  Record k of the list the coroutine of name n returned, and *)
(* the record emitted for it in the slot of n.                             *)
(***************************************************************************)
ReturnedRecords(n) == IF coro[n].pc = "returned" THEN coro[n].result ELSE <<>>
EmittedRecords(n) == Slot(CategoryOf(n), n)

\* The strategy set a fetched_at that fromisoformat accepts.
HasOwnStamp(item) ==
    "fetched_at" \in DOMAIN item /\ IsIsoFormat(item.fetched_at)

(***************************************************************************)
(* C12 (both stamps): when get_updates has returned, every record the      *)
(* strategy returned is emitted, and every emitted record has a fetched_at *)
(* (an ISO-8601 UTC string) and a fetched_at_kyiv (a Europe/Kyiv minute),  *)
(* whether or not the strategy's record had a fetched_at.                  *)
(***************************************************************************)
EveryRecordHasBothStamps ==
    Returned =>
      \A n \in Scheduled :
         /\ Len(EmittedRecords(n)) = Len(ReturnedRecords(n))
         /\ \A k \in 1..Len(EmittedRecords(n)) :
               LET rec == EmittedRecords(n)[k]
               IN  /\ {"fetched_at", "fetched_at_kyiv"} \subseteq DOMAIN rec
                   /\ IsIsoFormat(rec.fetched_at)
                   /\ rec.fetched_at_kyiv[1] = "Europe/Kyiv"
                   /\ \A f \in DOMAIN ReturnedRecords(n)[k] \ {"fetched_at"} :
                         rec[f] = ReturnedRecords(n)[k][f]

\* A returned batch with a record the strategy had stamped and one it had
\* not, both emitted.
BothStampsWitness ==
    /\ Returned
    /\ \E n \in Scheduled :
          /\ Len(EmittedRecords(n)) = 2
          /\ "fetched_at" \in DOMAIN ReturnedRecords(n)[1]
          /\ "fetched_at" \notin DOMAIN ReturnedRecords(n)[2]

(***************************************************************************)
(* C13 (own stamp reused): when get_updates has returned, a record whose   *)
(* strategy set a well-formed fetched_at T is emitted with fetched_at = T  *)
(* and with fetched_at_kyiv = T rendered in Europe/Kyiv.                   *)
(***************************************************************************)
OwnStampReused ==
    Returned =>
      \A n \in Scheduled : \A k \in 1..Len(ReturnedRecords(n)) :
         HasOwnStamp(ReturnedRecords(n)[k]) =>
            /\ EmittedRecords(n)[k].fetched_at = ReturnedRecords(n)[k].fetched_at
            /\ EmittedRecords(n)[k].fetched_at_kyiv =
                  KyivStamp(FromIsoFormat(ReturnedRecords(n)[k].fetched_at))

(***************************************************************************)
(* C14 (one instant): when get_updates has returned, the fetched_at_kyiv   *)
(* of every emitted record is the minute, in Europe/Kyiv, of the instant   *)
(* that record's fetched_at denotes.                                       *)
(***************************************************************************)
StampsDenoteOneInstant ==
    Returned =>
      \A n \in Scheduled : \A k \in 1..Len(EmittedRecords(n)) :
         EmittedRecords(n)[k].fetched_at_kyiv =
            KyivStamp(FromIsoFormat(EmittedRecords(n)[k].fetched_at))

(***************************************************************************)
(* C15 (batch instant): get_updates never raises on a record's stamp; when *)
(* it has returned, no record is lost, and a record whose strategy set no  *)
(* fetched_at, or one that cannot be parsed, is emitted with               *)
(* fetched_at = metadata.fetched_at and fetched_at_kyiv =                  *)
(* metadata.fetched_at_kyiv, both renderings of the one batch instant.     *)
(***************************************************************************)
UnstampedGetsBatchInstant ==
    /\ pc # "raised"
    /\ Returned =>
         /\ metadata.fetched_at_kyiv = KyivStamp(BatchInstant)
         /\ \A n \in Scheduled :
               /\ Len(EmittedRecords(n)) = Len(ReturnedRecords(n))
               /\ \A k \in 1..Len(ReturnedRecords(n)) :
                     ~HasOwnStamp(ReturnedRecords(n)[k]) =>
                        /\ EmittedRecords(n)[k].fetched_at = metadata.fetched_at
                        /\ EmittedRecords(n)[k].fetched_at_kyiv =
                              metadata.fetched_at_kyiv

\* A batch assembled after the first minute, with a record that had no
\* fetched_at and a record whose fetched_at could not be parsed.
BatchInstantWitness ==
    /\ Returned
    /\ BatchInstant[1] > 0
    /\ \E n \in Scheduled :
          /\ Len(EmittedRecords(n)) = 2
          /\ "fetched_at" \notin DOMAIN ReturnedRecords(n)[1]
          /\ "fetched_at" \in DOMAIN ReturnedRecords(n)[2]
          /\ ReturnedRecords(n)[2].fetched_at = MalformedStamp

(***************************************************************************)
(* C16 (no sources): get_updates never raises while loading the config;    *)
(* when the config has an empty sources list or cannot be loaded,          *)
(* get_updates returns at once: it creates and starts no coroutine (so no  *)
(* fetch is made) and the dict it returns is empty, with neither metadata  *)
(* nor updates.                                                            *)
(***************************************************************************)
NoSourcesConfigured == ~config_file.loadable \/ config_file.sources = <<>>

NoSourcesEmptyBatch ==
    /\ pc # "raised"
    /\ (NoSourcesConfigured /\ pc # "start") =>
          /\ pc = "done"
          /\ sources = <<>>
          /\ result_keys = {}
          /\ created = <<>>
          /\ coro = <<>>
          /\ updates = EmptyDict
          /\ metadata = <<>>

\* get_updates has returned on a config file that could not be loaded.
NoSourcesWitness ==
    /\ ~config_file.loadable
    /\ pc = "done"
    /\ result_keys = {}

(***************************************************************************)
(* C17 (completion order): whatever the order in which the coroutines      *)
(* finished, when get_updates has returned the slots are exactly those of  *)
(* the scheduled names, each slot holds the records of the coroutine       *)
(* scheduled under that name, the names of a bucket appear in the order    *)
(* of the config, and the buckets appear in the config order of their      *)
(* first names.                                                            *)
(***************************************************************************)
RECURSIVE FirstOccurrences(_, _)
FirstOccurrences(i, acc) ==
    IF i > Len(sources)
    THEN acc
    ELSE LET name == Get(sources[i], "name", None)
         IN  FirstOccurrences(i + 1,
                IF i \in ScheduledEntries
                   /\ \A k \in 1..Len(acc) : acc[k] # name
                THEN Append(acc, name)
                ELSE acc)

\* The names of the entries that got a task, in the order of the config.
ConfigOrder == FirstOccurrences(1, <<>>)

ConfigPosition(name) ==
    CHOOSE k \in 1..Len(ConfigOrder) : ConfigOrder[k] = name

BucketNames(k) == updates.val[updates.keys[k]].keys

CompletionOrderIrrelevant ==
    Returned =>
      /\ AllSlots = {<<CategoryOf(n), n>> : n \in Scheduled}
      /\ \A n \in Scheduled :
            Slot(CategoryOf(n), n) = OwnRecords(tasks.val[n], coro[n])
      /\ \A k \in 1..Len(updates.keys) :
            /\ \A i, j \in 1..Len(BucketNames(k)) :
                  i < j => ConfigPosition(BucketNames(k)[i])
                              < ConfigPosition(BucketNames(k)[j])
            /\ \A l \in 1..Len(updates.keys) :
                  k < l => ConfigPosition(BucketNames(k)[1])
                              < ConfigPosition(BucketNames(l)[1])

\* Two sources of one category, of which the second finished first and
\* with another record list than the first: the bucket lists them in the
\* order of the config, each with its own records.
CompletionOrderWitness ==
    /\ Returned
    /\ Len(tasks.keys) = 2
    /\ settle_order = <<tasks.keys[2], tasks.keys[1]>>
    /\ CategoryOf(tasks.keys[1]) = CategoryOf(tasks.keys[2])
    /\ Len(updates.keys) = 1
    /\ BucketNames(1) = tasks.keys
    /\ Len(Slot(CategoryOf(tasks.keys[1]), tasks.keys[1])) = 2
    /\ Slot(CategoryOf(tasks.keys[2]), tasks.keys[2]) = <<>>

(***************************************************************************)
(* C18 (assembly after settle): metadata and updates are written only in   *)
(* a step taken when every scheduled coroutine has finished, by returning  *)
(* or by raising; a step in which a coroutine raises changes no other      *)
(* coroutine, a finished coroutine stays as it finished, and once          *)
(* anything is assembled or returned every scheduled coroutine has         *)
(* finished.                                                               *)
(***************************************************************************)
AllFinished ==
    /\ DOMAIN coro = Scheduled
    /\ GatherDone(coro)
    /\ {settle_order[k] : k \in 1..Len(settle_order)} = Scheduled

AssemblyStep ==
    /\ (metadata' # metadata \/ updates' # updates \/ result_keys' # result_keys)
          => AllFinished
    /\ \A n \in DOMAIN coro \cap DOMAIN coro' :
          /\ Settled(coro[n]) => coro'[n] = coro[n]
          /\ (coro[n].pc # "raised" /\ coro'[n].pc = "raised") =>
                \A m \in (DOMAIN coro \cap DOMAIN coro') \ {n} : coro'[m] = coro[m]

AssemblyAfterSettle ==
    /\ [](pc # "raised")
    /\ []((metadata # <<>> \/ updates # EmptyDict \/ Returned) => AllFinished)
    /\ [][AssemblyStep]_vars

\* A coroutine raised first; its sibling finished after it, on a later
\* attempt, and its records are in the returned batch.
AssemblyAfterSettleWitness ==
    /\ Returned
    /\ Len(settle_order) = 2
    /\ coro[settle_order[1]].pc = "raised"
    /\ coro[settle_order[2]].pc = "returned"
    /\ Len(coro[settle_order[2]].calls) > 1
    /\ Len(Slot(CategoryOf(settle_order[2]), settle_order[2])) > 0

(***************************************************************************)
(* fetch_by_selector.  The coroutines that have returned from a page, the  *)
(* elements the selector matched on it, and those among the first          *)
(* MAX_HEADLINES that have text.                                           *)
(***************************************************************************)
SelectorRuns ==
    {n \in DOMAIN coro :
        tasks.val[n].func = "fetch_by_selector" /\ coro[n].pc = "returned"}

Matched(n) == coro[n].page

ReadableHeadlines(n) ==
    {k \in 1..Len(Matched(n)) : k <= MAX_HEADLINES /\ Matched(n)[k]}

(***************************************************************************)
(* C19 (headline cap), as stated: when the selector matched more than      *)
(* MAX_HEADLINES elements, fetch_by_selector returns exactly               *)
(* MAX_HEADLINES records.                                                  *)
(***************************************************************************)
ExactlyMaxHeadlines ==
    \A n \in SelectorRuns :
       Len(Matched(n)) > MAX_HEADLINES => Len(coro[n].result) = MAX_HEADLINES

(***************************************************************************)
(* C19 (headline cap), amended: fetch_by_selector returns one record for   *)
(* each of the first MAX_HEADLINES matched elements that has text, in      *)
(* page order, and none for any other element; so never more than          *)
(* MAX_HEADLINES records, and exactly MAX_HEADLINES when more elements     *)
(* matched and the first MAX_HEADLINES all have text.                      *)
(***************************************************************************)
CappedThenFiltered ==
    \A n \in SelectorRuns :
       /\ Len(coro[n].result) = Cardinality(ReadableHeadlines(n))
       /\ {coro[n].result[k].n : k \in 1..Len(coro[n].result)} = ReadableHeadlines(n)
       /\ \A i, j \in 1..Len(coro[n].result) :
             i < j => coro[n].result[i].n < coro[n].result[j].n
       /\ Len(coro[n].result) <= MAX_HEADLINES
       /\ (Len(Matched(n)) > MAX_HEADLINES
             /\ \A k \in 1..MAX_HEADLINES : Matched(n)[k])
              => Len(coro[n].result) = MAX_HEADLINES

\* The selector matched 8 elements, all with text: 5 records.
CappedThenFilteredWitness ==
    \E n \in SelectorRuns :
       /\ Len(Matched(n)) = 8
       /\ \A k \in 1..8 : Matched(n)[k]
       /\ Len(coro[n].result) = MAX_HEADLINES

(***************************************************************************)
(* clean_text.  What is left of a text once its whitespace is removed, and *)
(* the number of whitespace runs that separate two of its words.           *)
(***************************************************************************)
RECURSIVE WithoutWhitespace(_)
WithoutWhitespace(text) ==
    IF text = <<>>
    THEN <<>>
    ELSE IF Head(text) \in Whitespace
         THEN WithoutWhitespace(Tail(text))
         ELSE <<Head(text)>> \o WithoutWhitespace(Tail(text))

InnerRuns(text) ==
    Cardinality({k \in 2..Len(text) :
                    /\ text[k] \notin Whitespace
                    /\ text[k - 1] \in Whitespace
                    /\ \E j \in 1..(k - 1) : text[j] \notin Whitespace})

Spaces(text) == Cardinality({k \in 1..Len(text) : text[k] = " "})

Truncated(result) ==
    Len(result) >= 3 /\ SubSeq(result, Len(result) - 2, Len(result)) = Ellipsis

\* The result has no whitespace but single spaces between two other
\* characters; when the text was not cut, it is the text with each inner
\* whitespace run replaced by one space and the outer ones removed; when it
\* was cut, it is a beginning of that followed by the ellipsis.
Collapsed(text, result) ==
    /\ \A k \in 1..Len(result) : result[k] \in Whitespace => result[k] = " "
    /\ \A k \in 1..Len(result) :
          result[k] = " " =>
             /\ k > 1 /\ k < Len(result)
             /\ result[k - 1] # " " /\ result[k + 1] # " "
    /\ IF Truncated(result)
       THEN LET kept == WithoutWhitespace(SubSeq(result, 1, Len(result) - 3))
            IN  /\ Len(kept) <= Len(WithoutWhitespace(text))
                /\ kept = SubSeq(WithoutWhitespace(text), 1, Len(kept))
       ELSE /\ WithoutWhitespace(result) = WithoutWhitespace(text)
            /\ Spaces(result) = InnerRuns(text)

FormatOutcomes == {format_call.outcomes[k] : k \in 1..Len(format_call.outcomes)}

FailedLine == Line("Failed to fetch info.", "", 0, 0)

(***************************************************************************)
(* C21 (empty source): in every string format_output returns, the header   *)
(* line of a source whose record list is empty is followed by the line     *)
(* "Failed to fetch info.".                                                *)
(***************************************************************************)
EmptySourceSaysFailed ==
    \A o \in FormatOutcomes :
       ~o.raised =>
          \A k \in 1..Len(format_call.input) :
             format_call.input[k].elems = <<>> =>
                \E i \in 1..(Len(o.lines) - 1) :
                   /\ o.lines[i] = HeaderLine(format_call.input[k].name)
                   /\ o.lines[i + 1] = FailedLine

(***************************************************************************)
(* C22 (digest layout): format_output returns, for every flat map of       *)
(* records of the scheduled strategies, the title followed, for each       *)
(* source in input order, by its header line, one block per record (the    *)
(* record's text, or its description when it has no text, then the link    *)
(* line with its url) and a divider; it never raises.                      *)
(***************************************************************************)
BlockOf(item) ==
    << Line(IF "text" \in KeysOf(item) THEN "text" ELSE "description",
            item.func, item.entry, item.n),
       LinkLine(item), BlankLine >>

RECURSIVE BlocksOf(_, _)
BlocksOf(elems, k) ==
    IF k > Len(elems) THEN <<>> ELSE BlockOf(elems[k]) \o BlocksOf(elems, k + 1)

RECURSIVE SectionsOf(_, _)
SectionsOf(input, k) ==
    IF k > Len(input)
    THEN <<>>
    ELSE <<HeaderLine(input[k].name)>> \o BlocksOf(input[k].elems, 1)
            \o <<DividerLine>> \o SectionsOf(input, k + 1)

DigestLayout ==
    \A o \in FormatOutcomes :
       /\ ~o.raised
       /\ o.lines = <<TitleLine, BlankLine>> \o SectionsOf(format_call.input, 1)

(***************************************************************************)
(* C23 (format twice): two calls of format_output on the value get_updates *)
(* returned both return a string, the same one, and the value is as        *)
(* get_updates returned it.                                                *)
(***************************************************************************)
FormatTwiceSameString ==
    Len(format_call.outcomes) = 2 =>
       /\ ~format_call.outcomes[1].raised
       /\ ~format_call.outcomes[2].raised
       /\ format_call.outcomes[1].lines = format_call.outcomes[2].lines
       /\ format_call.input = BatchItemsView

(***************************************************************************)
(* C24 (termination): under fair scheduling, with every GET completing,    *)
(* get_updates eventually returns, with every scheduled coroutine started  *)
(* and finished, whatever the config and the outcomes of the GETs.         *)
(***************************************************************************)
EventuallyReturns ==
    <>(/\ pc = "done"
       /\ \A n \in DOMAIN coro : Settled(coro[n])
       /\ DOMAIN coro = Scheduled
       /\ sources # <<>> => Returned)

\* get_updates has returned a batch of two sources, one of which failed on
\* every attempt of its budget while the other went through a backoff.
EventuallyReturnsWitness ==
    /\ Returned
    /\ \E n, m \in Scheduled :
          /\ n # m
          /\ Len(coro[n].calls) = RETRY_ATTEMPTS
          /\ NeverSucceeded(coro[n])
          /\ coro[m].sleeps > 0
          /\ coro[m].pc = "returned"

(***************************************************************************)
(* C25 (backoff): in fetch_with_retry a backoff sleep is taken after a     *)
(* failed attempt exactly when another attempt follows: a coroutine sleeps *)
(* only after a failed attempt that is not the third, every sleep is       *)
(* followed by the next attempt, there is one sleep per attempt made       *)
(* before the current one, and none after a successful attempt or after    *)
(* the third failed one.                                                   *)
(***************************************************************************)
BackoffBookkeeping ==
    \A n \in RetryRuns :
       LET run  == coro[n]
           made == Len(run.calls)
       IN  /\ run.pc = "sleep" =>
                 /\ made > 0 /\ run.calls[made] # "ok"
                 /\ made < RETRY_ATTEMPTS
                 /\ run.sleeps = made
           /\ run.pc = "get" => run.sleeps = made
           /\ run.fetch = "returned" => run.sleeps = made - 1
           /\ run.fetch = "raised" =>
                 /\ made = RETRY_ATTEMPTS
                 /\ run.sleeps = RETRY_ATTEMPTS - 1

BackoffStep ==
    \A n \in RetryRuns \cap DOMAIN coro' :
       /\ (coro[n].pc = "sleep" /\ coro'[n] # coro[n]) =>
             /\ coro'[n].pc = "get"
             /\ coro'[n].attempt = coro[n].attempt + 1
             /\ coro'[n].sleeps = coro[n].sleeps
       /\ coro'[n].sleeps # coro[n].sleeps =>
             /\ coro[n].pc = "get" /\ coro'[n].pc = "sleep"
             /\ coro'[n].sleeps = coro[n].sleeps + 1

BackoffBetweenAttempts == []BackoffBookkeeping /\ [][BackoffStep]_vars

\* One fetch succeeded at once, without any sleep; another failed three
\* times, with a sleep after the first and the second failure only.
BackoffWitness ==
    /\ pc = "done"
    /\ \E n, m \in RetryRuns :
          /\ coro[n].calls = <<"ok">> /\ coro[n].sleeps = 0
          /\ Len(coro[m].calls) = RETRY_ATTEMPTS
          /\ coro[m].fetch = "raised"
          /\ coro[m].sleeps = 2

(***************************************************************************)
(* C27 (result keys): every value get_updates returns has both the keys    *)
(* 'metadata' and 'updates', so that raw_data["updates"] in the serving    *)
(* layer is defined whatever the config was.                               *)
(***************************************************************************)
UpdatesLookupDefined == "updates" \in result_keys

ResultHasBothKeys ==
    pc = "done" =>
      /\ result_keys = {"metadata", "updates"}
      /\ UpdatesLookupDefined

(***************************************************************************)
(* C28 (every coroutine awaited): once the gather has started, every       *)
(* coroutine created while scheduling is one of the awaitables the gather  *)
(* runs, exactly once: none was replaced in tasks or dropped.              *)
(***************************************************************************)
Awaiting(task) == {n \in DOMAIN coro : tasks.val[n] = task}

EveryCreatedCoroutineAwaited ==
    pc \in {"gather", "done"} =>
      \A k \in 1..Len(created) : Cardinality(Awaiting(created[k])) = 1

(***************************************************************************)
(* C29 (records copied): for every source whose task returned a record     *)
(* sequence, the emitted sequence has the length and the order of the      *)
(* strategy's, each emitted record has the strategy's fields with the      *)
(* strategy's values apart from fetched_at and fetched_at_kyiv, and the    *)
(* assembly leaves the strategy's own records as they were.                *)
(***************************************************************************)
Stamps == {"fetched_at", "fetched_at_kyiv"}

EmittedMatchesOwn ==
    Returned =>
      \A n \in Scheduled :
         coro[n].pc = "returned" =>
            LET own == coro[n].result
                out == EmittedRecords(n)
            IN  /\ Len(out) = Len(own)
                /\ \A k \in 1..Len(own) :
                      /\ DOMAIN out[k] \ Stamps = DOMAIN own[k] \ Stamps
                      /\ \A f \in DOMAIN own[k] \ Stamps : out[k][f] = own[k][f]

OwnRecordsUntouched ==
    (pc = "gather" /\ pc' # "gather") =>
       \A n \in DOMAIN coro :
          /\ n \in DOMAIN coro'
          /\ coro'[n].result = coro[n].result

RecordsCopiedNotModified == []EmittedMatchesOwn /\ [][OwnRecordsUntouched]_vars

\* A returned batch of two different records in which the emitted copy of a
\* record the strategy had stamped carries another fetched_at than the
\* strategy's record does.
RecordsCopiedWitness ==
    /\ Returned
    /\ \E n \in Scheduled :
          /\ coro[n].pc = "returned"
          /\ Len(coro[n].result) = 2
          /\ coro[n].result[1] # coro[n].result[2]
          /\ "fetched_at" \in DOMAIN coro[n].result[1]
          /\ EmittedRecords(n)[1].fetched_at # coro[n].result[1].fetched_at
          /\ "fetched_at_kyiv" \notin DOMAIN coro[n].result[1]

(***************************************************************************)
(* The two-stage strategy fetch_pico_openpgp_stable_version, called on its *)
(* own (SCRAPER_REGISTRY does not list it): the releases page is fetched,  *)
(* the link of the release labelled 'Latest' is read from it, and the      *)
(* release page behind the link is fetched.  run.fetches logs the GETs of  *)
(* each fetch_with_retry call, run.sleeps its backoff sleeps.              *)
(***************************************************************************)
PicoName == "pico-openpgp"

\* href of the 'Latest' link: a tag with a version number, or one without.
PicoHrefs == {"/releases/tag/v1.2", "/releases/tag/latest"}

\* The releases page: whether a.Link span.Label--success is there (with its
\* parent), and the parent's href (None: no href attribute, or an empty one).
PicoFirstPages ==
    {[label |-> FALSE, href |-> None]} \cup
    {[label |-> TRUE, href |-> h] : h \in PicoHrefs \cup {None}}

\* The release page: whether its text has 'Version <number>', and whether
\* div.markdown-body has an h2 with 'new' followed by a list with an item.
PicoReleasePages == [version_text : BOOLEAN, whats_new : BOOLEAN]

\* Line 305: urljoin(url, href) for an absolute path.
UrlJoin(url, href) == [base |-> url, path |-> href]

\* Lines 296-303: the href of the 'Latest' link, None when the label, its
\* parent or the href is missing.
ReleaseLink(page) == IF page.label /\ Truthy(page.href) THEN page.href ELSE None

\* Lines 309-320: the version, from the URL, else from the page text.
PicoVersion(latest_url, page) ==
    IF latest_url.path = "/releases/tag/v1.2" THEN "1.2"
    ELSE IF page.version_text THEN "1.1"
    ELSE "Unknown"

\* Lines 322-332: the first item of the "what's new" list (cleaned), else the
\* version.
PicoDescription(latest_url, page) ==
    IF page.whats_new THEN "first item" ELSE PicoVersion(latest_url, page)

\* Lines 334-344: the record list returned after the second fetch.
PicoRecords(latest_url, page, t) ==
    <<[title          |-> PicoName,
       latest_version |-> PicoVersion(latest_url, page),
       description    |-> PicoDescription(latest_url, page),
       url            |-> latest_url,
       fetched_at     |-> IsoFormatZ(t)]>>

\* A second call that goes on counting where the first call stopped.
NextFetchAttemptShared(attempt) == attempt

\* utils.py line 26: every call of fetch_with_retry runs its own
\* `for attempt in range(RETRY_ATTEMPTS)`.
NextFetchAttempt(attempt) == 0

NewPicoRun ==
    [pc |-> "get", stage |-> 1, attempt |-> 0, fetches |-> << <<>> >>,
     sleeps |-> <<0>>, page |-> None, latest_url |-> None, result |-> <<>>,
     caught |-> None]

\* The coroutine after the GET of its current fetch completed with outcome
\* o, reading page (of the stage's kind) at instant t.
PicoAfterGet(run, o, page, t) ==
    LET r1   == [run EXCEPT !.fetches[run.stage] = Append(@, o)]
        step == FetchWithRetryStep(run.attempt, o)
    IN  CASE step = "sleep" ->
               [r1 EXCEPT !.pc = "sleep", !.sleeps[run.stage] = @ + 1]
          [] step = "raise" ->
               \* lines 346-348: except Exception: log, return []
               [r1 EXCEPT !.pc = "returned", !.result = <<>>, !.caught = o]
          [] step = "return" ->
               IF run.stage = 1
               THEN IF ReleaseLink(page) = None
                    THEN [r1 EXCEPT !.pc = "returned", !.page = page,
                                    !.result = <<>>]
                    ELSE [r1 EXCEPT !.page = page,
                                    !.latest_url = UrlJoin(SiteUrl, ReleaseLink(page)),
                                    !.stage = 2,
                                    !.attempt = NextFetchAttempt(@),
                                    !.fetches = Append(@, <<>>),
                                    !.sleeps = Append(@, 0)]
               ELSE [r1 EXCEPT !.pc = "returned",
                               !.result = PicoRecords(run.latest_url, page, t)]

InitPico ==
    /\ config_file = ConfigFile(TRUE, <<>>)
    /\ pc = "start"
    /\ sources = <<>>
    /\ idx = 1
    /\ tasks = EmptyDict
    /\ source_categories = EmptyDict
    /\ created = <<>>
    /\ coro = [n \in {PicoName} |-> NewPicoRun]
    /\ updates = EmptyDict
    /\ metadata = <<>>
    /\ result_keys = {}
    /\ settle_order = <<>>
    /\ clean_call = NoCall
    /\ format_call = NoFormatCall
    /\ season = RunSeason

PicoGet ==
    /\ coro[PicoName].pc = "get"
    /\ \E o \in HttpOutcomes :
         \E page \in IF o # "ok" THEN {None}
                      ELSE IF coro[PicoName].stage = 1 THEN PicoFirstPages
                      ELSE PicoReleasePages :
           \E t \in IF o = "ok" /\ coro[PicoName].stage = 2
                    THEN Instants ELSE {<<0, 0>>} :
              coro' = [coro EXCEPT ![PicoName] = PicoAfterGet(@, o, page, t)]
    /\ UNCHANGED <<season, config_file, pc, sources, idx, tasks, source_categories,
                   created, updates, metadata, result_keys, settle_order,
                   clean_call, format_call>>

PicoBackoffDone ==
    /\ coro[PicoName].pc = "sleep"
    /\ coro' = [coro EXCEPT ![PicoName] =
                  [@ EXCEPT !.pc = "get", !.attempt = @ + 1]]
    /\ UNCHANGED <<season, config_file, pc, sources, idx, tasks, source_categories,
                   created, updates, metadata, result_keys, settle_order,
                   clean_call, format_call>>

NextPico == PicoGet \/ PicoBackoffDone

PicoSpec == InitPico /\ [][NextPico]_vars

(***************************************************************************)
(* C26 (two-stage strategy): the second fetch is issued only after the     *)
(* first fetch succeeded and its page had a release link; each of the two  *)
(* fetches makes at most RETRY_ATTEMPTS attempts of its own; when a fetch  *)
(* has used up its attempts the coroutine returns an empty list, and once  *)
(* it has returned it takes no further step.                               *)
(***************************************************************************)
Succeeded(calls) == calls # <<>> /\ calls[Len(calls)] = "ok"

Exhausted(calls) ==
    Len(calls) = RETRY_ATTEMPTS /\ \A k \in 1..Len(calls) : calls[k] # "ok"

TwoStageState ==
    LET run == coro[PicoName]
    IN  /\ Len(run.fetches) \in 1..2
        /\ Len(run.fetches) = run.stage
        /\ Len(run.fetches) = 2 =>
              /\ Succeeded(run.fetches[1])
              /\ ReleaseLink(run.page) # None
              /\ run.latest_url = UrlJoin(SiteUrl, run.page.href)
        /\ \A i \in 1..Len(run.fetches) :
              LET calls == run.fetches[i]
              IN  /\ Len(calls) <= RETRY_ATTEMPTS
                  /\ \A k \in 1..(Len(calls) - 1) : calls[k] # "ok"
                  /\ (i < Len(run.fetches) \/ run.pc = "get") =>
                        run.sleeps[i] = IF i < Len(run.fetches)
                                        THEN Len(calls) - 1 ELSE Len(calls)
                  /\ Exhausted(calls) =>
                        /\ i = Len(run.fetches)
                        /\ run.pc = "returned"
                        /\ run.result = <<>>
                  /\ (Len(calls) < RETRY_ATTEMPTS /\ ~Succeeded(calls)) =>
                        run.pc # "returned"
        /\ run.pc = "get" => run.attempt = Len(run.fetches[run.stage])
        /\ run.result # <<>> =>
              /\ run.pc = "returned"
              /\ Len(run.fetches) = 2
              /\ Succeeded(run.fetches[2])
              /\ Len(run.result) = 1
              /\ run.result[1].url = run.latest_url

TwoStageStep ==
    /\ coro[PicoName].pc = "returned" => coro' = coro
    /\ Len(coro'[PicoName].fetches) > Len(coro[PicoName].fetches) =>
          /\ Succeeded(coro'[PicoName].fetches[1])
          /\ coro'[PicoName].fetches[2] = <<>>
          /\ coro'[PicoName].attempt = 0

TwoStageFetch == []TwoStageState /\ [][TwoStageStep]_vars

\* The first fetch succeeded on its third attempt and found the link; the
\* second fetch then failed three times, and the coroutine returned [].
TwoStageWitness ==
    LET run == coro[PicoName]
    IN  /\ run.pc = "returned"
        /\ Len(run.fetches) = 2
        /\ Len(run.fetches[1]) = RETRY_ATTEMPTS
        /\ Succeeded(run.fetches[1])
        /\ Exhausted(run.fetches[2])
        /\ run.result = <<>>

(***************************************************************************)
(* fetch_aShell_stable_version on a fetched page: the page is the version  *)
(* heading (or none) and the tags that follow it among its siblings.  The  *)
(* item texts of the pages explored are short and hold no sentence end, so *)
(* the 300-character cut and the sentence split leave them as they are.    *)
(***************************************************************************)
MaxSiblings == 3

AShellName == "aShell"

Tag(name, id) == [name |-> name, id |-> id]

SiblingTags ==
    { Tag("h1", None), Tag("h4", "whats-new"), Tag("h4", "improvements"),
      Tag("h4", None), Tag("ul", None), Tag("p", None) }

SiblingLists == UNION {[1..n -> SiblingTags] : n \in 0..MaxSiblings}

AShellPages ==
    {[heading |-> FALSE, siblings |-> <<>>]} \cup
    {[heading |-> TRUE, siblings |-> sibs] : sibs \in SiblingLists}

VersionText == "Version 1.0"

\* tag.find_next_sibling(name) for the tag at position i (0: the version
\* heading): the position of the first later sibling with that name, of
\* the next sibling when name is None; 0 when there is none.
FindNextSibling(sibs, i, name) ==
    LET later == {j \in (i + 1)..Len(sibs) : name = None \/ sibs[j].name = name}
    IN  IF later = {} THEN 0 ELSE CHOOSE j \in later : \A k \in later : j <= k

\* Line 242: the texts of the li of the list at position j (each list of the
\* pages explored has one item, which names the list).
ItemsOf(j) == << "item of list " \o ToString(j) >>

\* Lines 238-247: the while loop from current on, with the two lists
\* collected so far.
RECURSIVE SiblingWalk(_, _, _)
SiblingWalk(sibs, current, acc) ==
    IF current = 0 \/ sibs[current].name = "h1"
    THEN acc
    ELSE LET ul   == IF sibs[current].name = "h4"
                     THEN FindNextSibling(sibs, current, "ul") ELSE 0
             acc2 == IF ul = 0 THEN acc
                     ELSE IF sibs[current].id = "whats-new"
                          THEN [acc EXCEPT !.whats_new = ItemsOf(ul)]
                     ELSE IF sibs[current].id = "improvements"
                          THEN [acc EXCEPT !.improvements = ItemsOf(ul)]
                     ELSE acc
         IN  SiblingWalk(sibs, FindNextSibling(sibs, current, None), acc2)

\* Lines 236-247.
CollectLists(sibs) ==
    SiblingWalk(sibs, FindNextSibling(sibs, 0, None),
                [whats_new |-> <<>>, improvements |-> <<>>])

\* Lines 249-284: the record built from the two lists.
AShellRecords(lists, t) ==
    <<[title          |-> AShellName,
       latest_version |-> "1.0",
       description    |-> IF lists.whats_new # <<>> THEN lists.whats_new[1]
                          ELSE IF lists.improvements # <<>>
                               THEN lists.improvements[1]
                          ELSE VersionText,
       text           |-> <<VersionText>>
                          \o (IF lists.whats_new # <<>>
                              THEN <<"What's New:">> \o lists.whats_new
                              ELSE <<>>)
                          \o (IF lists.improvements # <<>>
                              THEN <<"Improvements:">> \o lists.improvements
                              ELSE <<>>),
       url            |-> SiteUrl,
       fetched_at     |-> IsoFormatZ(t)]>>

InitAShell ==
    /\ config_file = ConfigFile(TRUE, <<>>)
    /\ pc = "start"
    /\ sources = <<>>
    /\ idx = 1
    /\ tasks = EmptyDict
    /\ source_categories = EmptyDict
    /\ created = <<>>
    /\ \E page \in AShellPages :
          coro = [n \in {AShellName} |->
                    [pc |-> "fetched", page |-> page, whats_new |-> <<>>,
                     improvements |-> <<>>, result |-> <<>>]]
    /\ updates = EmptyDict
    /\ metadata = <<>>
    /\ result_keys = {}
    /\ settle_order = <<>>
    /\ clean_call = NoCall
    /\ format_call = NoFormatCall
    /\ season = RunSeason

\* Lines 227-284, from the page fetch_with_retry returned to the return.
AShellParse ==
    /\ coro[AShellName].pc = "fetched"
    /\ LET page  == coro[AShellName].page
           lists == CollectLists(page.siblings)
       IN  coro' = [coro EXCEPT ![AShellName] =
                      IF ~page.heading
                      THEN [@ EXCEPT !.pc = "returned", !.result = <<>>]
                      ELSE [@ EXCEPT !.pc = "returned",
                                     !.whats_new = lists.whats_new,
                                     !.improvements = lists.improvements,
                                     !.result = AShellRecords(lists, <<0, 0>>)]]
    /\ UNCHANGED <<season, config_file, pc, sources, idx, tasks, source_categories,
                   created, updates, metadata, result_keys, settle_order,
                   clean_call, format_call>>

AShellSpec == InitAShell /\ [][AShellParse]_vars

(***************************************************************************)
(* C30 (sibling walk): the items recorded for the 'whats-new' (resp.       *)
(* 'improvements') heading are those of the list that follows that heading *)
(* inside the version section: the list lies before the terminating h1,    *)
(* and no other h4 heading stands between the heading and the list.        *)
(***************************************************************************)
\* The siblings of the version section: those before the first h1.
VersionSection(sibs) ==
    {j \in 1..Len(sibs) : \A k \in 1..j : sibs[k].name # "h1"}

\* The list that belongs to the heading at position h: the first ul after h
\* with neither an h1 nor an h4 before it; 0 when there is none.
OwnList(sibs, h) ==
    LET ul == FindNextSibling(sibs, h, "ul")
    IN  IF ul # 0 /\ \A k \in (h + 1)..(ul - 1) : sibs[k].name \notin {"h1", "h4"}
        THEN ul ELSE 0

RecordedFromOwnList(sibs, id, items) ==
    items # <<>> =>
       \E h \in VersionSection(sibs) :
          /\ sibs[h] = Tag("h4", id)
          /\ OwnList(sibs, h) # 0
          /\ items = ItemsOf(OwnList(sibs, h))

SiblingWalkTakesOwnList ==
    LET run == coro[AShellName]
    IN  run.pc = "returned" =>
          /\ RecordedFromOwnList(run.page.siblings, "whats-new", run.whats_new)
          /\ RecordedFromOwnList(run.page.siblings, "improvements",
                                 run.improvements)

====
